---- MODULE Spec2Model ----
(***************************************************************************)
(* KnowTation: the local reference library (referenceService.ts), the      *)
(* Nostr event encoders and publish/retract hooks (nostrService.ts) and    *)
(* the page handlers that drive them (AddReference, EditReference,         *)
(* Dashboard/ViewReference confirmDelete).                                 *)
(*                                                                         *)
(* A handler runs from its submit up to its first transport call in one    *)
(* step; every transport call (nostr.event) is a step of its own whose     *)
(* outcome the relay pool decides.                                         *)
(*                                                                         *)
(* Specifications:                                                         *)
(*   Spec        the page handlers over the library and the transport      *)
(*   SpecSvc     referenceService calls suspended at their awaits          *)
(*   SpecEvt     public event encoding and decoding                        *)
(*   SpecCrypto  encryptData and decryptData                               *)
(*   SpecBib     parseBibTeX, exportToBibTeX and the import page           *)
(***************************************************************************)
EXTENDS Integers, Sequences, FiniteSets, TLC

\* ---------------------------------------------------------------- bounds
MaxRefs == 1        \* records ever created
MaxClock == 1       \* seconds the clock may advance
NumIVs == 1         \* distinct values getRandomValues may return
NumNonces == 2      \* the same, for direct calls of encryptData
MaxBlocks == 2       \* entry blocks in a text handed to parseBibTeX
MaxCalls == 3       \* service calls made, in flight together or not
NumRandoms == 2     \* distinct values Math.random may return

\* ------------------------------------------------------------- constants
REFERENCE_PUBLIC_KIND == 50000
REFERENCE_PRIVATE_KIND == 50001
REFERENCE_DELETE_KIND == 5

Undefined == "<undefined>"      \* an optional string field that is absent
NoYear == -1                    \* an optional year that is absent
NoUser == "<null>"              \* useCurrentUser: user === null
DemoPubkey == "npub1demo"

PLACEHOLDER_PUBLIC == "event:placeholder"
PLACEHOLDER_PRIVATE == "event:placeholder:private"

\* JavaScript truthiness of an optional string / number
Truthy(s) == s # Undefined /\ s # ""
TruthyNum(n) == n # NoYear /\ n # 0

\* ------------------------------------------------------ form data domain
\* Field values are drawn from pairwise distinct texts, so that a text seen
\* on the wire identifies the field it was copied from.
Contents ==
  { [title |-> "Title One", authors |-> <<"Ann Lee">>, year |-> 2020,
     journalOrBook |-> Undefined, doi |-> "10.1000/one", url |-> Undefined,
     tags |-> <<"ml">>, notes |-> "secret note"],
    [title |-> "Title Two", authors |-> <<"Bo Diaz", "Cy Eng">>, year |-> NoYear,
     journalOrBook |-> "Journal J", doi |-> Undefined, url |-> "https://u.example",
     tags |-> <<>>, notes |-> Undefined] }

Visibilities == {"public", "private"}

ReferenceFormData ==
  { [title |-> c.title, authors |-> c.authors, year |-> c.year,
     journalOrBook |-> c.journalOrBook, doi |-> c.doi, url |-> c.url,
     tags |-> c.tags, notes |-> c.notes, visibility |-> v]
      : c \in Contents, v \in Visibilities }

VARIABLES
  library,    \* localStorage['knowtation:references']: sequence of Reference
  wire,       \* the events the handler `hnd` handed to nostr.event, in order,
              \* each with its outcome
  user,       \* useCurrentUser().user (pubkey or NoUser)
  now,        \* Math.floor(Date.now() / 1000)
  nextId,     \* number of ids generateUniqueId has produced
  hnd,        \* the page handler in flight, or the last one that finished
  calls       \* service and codec calls made outside the page handlers
              \* (used by the specifications further down; <<>> in Spec)

vars == <<library, wire, user, now, nextId, hnd, calls>>

\* ------------------------------------------------------ referenceService
generateUniqueId(n) == "r" \o ToString(n)

IndexOfId(refs, id) ==
  IF \E i \in 1..Len(refs) : refs[i].id = id
  THEN CHOOSE i \in 1..Len(refs) :
         refs[i].id = id /\ \A j \in 1..(i - 1) : refs[j].id # id
  ELSE 0

HasId(refs, id) == IndexOfId(refs, id) # 0

getReference(refs, id) == refs[IndexOfId(refs, id)]

\* createReference: the record appended to the library
NewReference(data, id, t) ==
  [id |-> id, title |-> data.title, authors |-> data.authors, year |-> data.year,
   journalOrBook |-> data.journalOrBook, doi |-> data.doi, url |-> data.url,
   tags |-> data.tags, notes |-> data.notes, visibility |-> data.visibility,
   createdAt |-> t, updatedAt |-> t, eventId |-> Undefined]

\* variant: the edited record starts over without its eventId
UpdatedReference_unmirrored(old, data, t) ==
  [id |-> old.id, title |-> data.title, authors |-> data.authors, year |-> data.year,
   journalOrBook |-> data.journalOrBook, doi |-> data.doi, url |-> data.url,
   tags |-> data.tags, notes |-> data.notes, visibility |-> data.visibility,
   createdAt |-> old.createdAt, updatedAt |-> t, eventId |-> Undefined]

\* updateReference: {...references[index], ...referenceData, updatedAt}
UpdatedReference(old, data, t) ==
  [id |-> old.id, title |-> data.title, authors |-> data.authors, year |-> data.year,
   journalOrBook |-> data.journalOrBook, doi |-> data.doi, url |-> data.url,
   tags |-> data.tags, notes |-> data.notes, visibility |-> data.visibility,
   createdAt |-> old.createdAt, updatedAt |-> t, eventId |-> old.eventId]

\* updateReferenceEventId: {...references[index], eventId, updatedAt}
WithEventId(old, eventId, t) == [old EXCEPT !.eventId = eventId, !.updatedAt = t]

\* variant: the list is cut off at the record
FilterOutId_truncating(refs, id) ==
  IF HasId(refs, id) THEN SubSeq(refs, 1, IndexOfId(refs, id) - 1) ELSE refs

\* deleteReference: references.filter(ref => ref.id !== id)
FilterOutId(refs, id) == SelectSeq(refs, LAMBDA r : r.id # id)

\* ---------------------------------------------------------- nostrService
PlainContent(text) == [enc |-> FALSE, key |-> "", iv |-> 0, text |-> <<text>>]

\* JSON.stringify(reference): the key/value texts of the whole record
JSONstringify(r) ==
  <<"id", r.id, "title", r.title, "authors">> \o r.authors
    \o (IF r.year # NoYear THEN <<"year", ToString(r.year)>> ELSE <<>>)
    \o (IF r.journalOrBook # Undefined THEN <<"journalOrBook", r.journalOrBook>> ELSE <<>>)
    \o (IF r.doi # Undefined THEN <<"doi", r.doi>> ELSE <<>>)
    \o (IF r.url # Undefined THEN <<"url", r.url>> ELSE <<>>)
    \o <<"tags">> \o r.tags
    \o (IF r.notes # Undefined THEN <<"notes", r.notes>> ELSE <<>>)
    \o <<"visibility", r.visibility>>
    \o (IF r.eventId # Undefined THEN <<"eventId", r.eventId>> ELSE <<>>)

\* a text is a sequence of pieces; one piece may be an unpaired surrogate
LoneSurrogate == "<U+D800>"
ReplacementChar == "<U+FFFD>"

\* new TextEncoder().encode(data): UTF-8, an unpaired surrogate becomes U+FFFD
TextEncoder_encode(data) ==
  [i \in 1..Len(data) |->
     IF data[i] = LoneSurrogate THEN ReplacementChar ELSE data[i]]

\* new TextDecoder().decode(buffer) of bytes that are valid UTF-8
TextDecoder_decode(bytes) == bytes

\* variant: every call uses the same initialization vector
encryptData_fixedIV(data, key, iv) ==
  [enc |-> TRUE, key |-> key, iv |-> 0, text |-> TextEncoder_encode(data)]

\* encryptData: base64 of iv || AES-GCM(key, iv, UTF-8 of data); the bytes
\* are sealed under the key and the iv
encryptData(data, key, iv) ==
  [enc |-> TRUE, key |-> key, iv |-> iv, text |-> TextEncoder_encode(data)]

\* variant: the bytes are handed back whatever the key
decryptData_noAuth(encryptedData, key) ==
  [ok |-> TRUE, error |-> "", text |-> TextDecoder_decode(encryptedData.text)]

\* decryptData: AES-GCM under the iv found in the blob; the promise rejects
\* (OperationError) unless the blob was sealed under this key
decryptData(encryptedData, key) ==
  IF encryptedData.enc /\ encryptedData.key = key
    THEN [ok |-> TRUE, error |-> "",
          text |-> TextDecoder_decode(encryptedData.text)]
    ELSE [ok |-> FALSE, error |-> "OperationError", text |-> <<>>]

\* deriveEncryptionKey: PBKDF2 of the pubkey under a constant salt
deriveEncryptionKey(pubkey) == "key:" \o pubkey

\* variant: the notes are mapped to a tag like the other optional fields
PublicTags_withNotes(r) ==
  <<<<"title", r.title>>>>
    \o [i \in 1..Len(r.authors) |-> <<"author", r.authors[i]>>]
    \o (IF TruthyNum(r.year) THEN <<<<"year", ToString(r.year)>>>> ELSE <<>>)
    \o (IF Truthy(r.journalOrBook) THEN <<<<"journal", r.journalOrBook>>>> ELSE <<>>)
    \o (IF Truthy(r.doi) THEN <<<<"doi", r.doi>>>> ELSE <<>>)
    \o (IF Truthy(r.url) THEN <<<<"url", r.url>>>> ELSE <<>>)
    \o (IF Truthy(r.notes) THEN <<<<"note", r.notes>>>> ELSE <<>>)
    \o [i \in 1..Len(r.tags) |-> <<"t", r.tags[i]>>]
    \o <<<<"client-ref-id", r.id>>>>

PublicTags(r) ==
  <<<<"title", r.title>>>>
    \o [i \in 1..Len(r.authors) |-> <<"author", r.authors[i]>>]
    \o (IF TruthyNum(r.year) THEN <<<<"year", ToString(r.year)>>>> ELSE <<>>)
    \o (IF Truthy(r.journalOrBook) THEN <<<<"journal", r.journalOrBook>>>> ELSE <<>>)
    \o (IF Truthy(r.doi) THEN <<<<"doi", r.doi>>>> ELSE <<>>)
    \o (IF Truthy(r.url) THEN <<<<"url", r.url>>>> ELSE <<>>)
    \o [i \in 1..Len(r.tags) |-> <<"t", r.tags[i]>>]
    \o <<<<"client-ref-id", r.id>>>>

PublicEventTemplate(r, t) ==
  [kind |-> REFERENCE_PUBLIC_KIND,
   content |-> PlainContent("KnowTation public reference"),
   tags |-> PublicTags(r), created_at |-> t]

\* variant: the private event is made searchable by title
PrivateTags_withTitle(r) ==
  << <<"client-ref-id", r.id>>, <<"e-type", "reference">>, <<"title", r.title>> >>

PrivateTags(r) == << <<"client-ref-id", r.id>>, <<"e-type", "reference">> >>

PrivateEventTemplate(r, pubkey, iv, t) ==
  [kind |-> REFERENCE_PRIVATE_KIND,
   content |-> encryptData(JSONstringify(r), deriveEncryptionKey(pubkey), iv),
   tags |-> PrivateTags(r), created_at |-> t]

RetractionEventTemplate(r, reason, t) ==
  [kind |-> REFERENCE_DELETE_KIND, content |-> PlainContent(reason),
   tags |-> << <<"e", r.eventId>> >>, created_at |-> t]

\* variant: the eventId check is missing
RetractGuardFails_missing(r) == FALSE

\* useRetractReference: the guard in front of the event template
RetractGuardFails(r) == ~Truthy(r.eventId)

\* the identifier of an event on the relays: a digest of the event itself
EventIdOf(ev) == "id:" \o ToString(ev)

\* useNostrPublish + the Promise around publishEvent: what a hook call does
\* before the transport is reached.  "" means the event goes to nostr.event.
HookThrows(op, arg, u) ==
  IF op = "retract" /\ RetractGuardFails(arg) THEN "NotPublished"
  ELSE IF op = "publishPrivate" /\ u = NoUser THEN "NotLoggedIn"
  ELSE IF u = NoUser THEN "NotLoggedIn"
  ELSE ""

\* the event template a hook hands to publishEvent
EventTemplate(s, arg, u, iv, t) ==
  IF s.op = "retract" THEN RetractionEventTemplate(arg, s.reason, t)
  ELSE IF s.op = "publishPublic" THEN PublicEventTemplate(arg, t)
  ELSE PrivateEventTemplate(arg, u, iv, t)

\* the value the hook's promise resolves with in onSuccess
HookResolves(op) ==
  IF op = "publishPublic" THEN PLACEHOLDER_PUBLIC
  ELSE IF op = "publishPrivate" THEN PLACEHOLDER_PRIVATE
  ELSE "true"

\* ------------------------------------------------------- handler records
NullReference ==
  [id |-> "<none>", title |-> "", authors |-> <<>>, year |-> NoYear,
   journalOrBook |-> Undefined, doi |-> Undefined, url |-> Undefined,
   tags |-> <<>>, notes |-> Undefined, visibility |-> "private",
   createdAt |-> 0, updatedAt |-> 0, eventId |-> Undefined]

RetractStep(reason) == [op |-> "retract", reason |-> reason]
PublishPublicStep == [op |-> "publishPublic", reason |-> ""]
PublishPrivateStep == [op |-> "publishPrivate", reason |-> ""]

\* AddReference.handleSubmit: the publish chosen by data.visibility
AddSteps(data) ==
  IF data.visibility = "public" THEN <<PublishPublicStep>> ELSE <<PublishPrivateStep>>

\* variant: the unchanged-visibility public branch publishes before it retracts
EditSteps_publishFirst(reference, data) ==
  LET wasPublicNowPrivate ==
        reference.visibility = "public" /\ data.visibility = "private"
      wasPrivateNowPublic ==
        reference.visibility = "private" /\ data.visibility = "public"
  IN  IF wasPublicNowPrivate /\ Truthy(reference.eventId)
        THEN <<RetractStep("Changed to private by user"), PublishPrivateStep>>
      ELSE IF wasPrivateNowPublic
        THEN <<PublishPublicStep>>
      ELSE IF Truthy(reference.eventId)
        THEN IF data.visibility = "public"
               THEN <<PublishPublicStep, RetractStep("Updated by user")>>
               ELSE <<PublishPrivateStep>>
      ELSE <<>>

\* EditReference.handleSubmit: the network calls of the if / else-if chain
EditSteps(reference, data) ==
  LET wasPublicNowPrivate ==
        reference.visibility = "public" /\ data.visibility = "private"
      wasPrivateNowPublic ==
        reference.visibility = "private" /\ data.visibility = "public"
  IN  IF wasPublicNowPrivate /\ Truthy(reference.eventId)
        THEN <<RetractStep("Changed to private by user"), PublishPrivateStep>>
      ELSE IF wasPrivateNowPublic
        THEN <<PublishPublicStep>>
      ELSE IF Truthy(reference.eventId)
        THEN IF data.visibility = "public"
               THEN <<RetractStep("Updated by user"), PublishPublicStep>>
               ELSE <<PublishPrivateStep>>
      ELSE <<>>

\* variant: every published reference is retracted
DeleteSteps_anyVisibility(reference) ==
  IF Truthy(reference.eventId)
    THEN <<RetractStep("Deleted by user")>>
    ELSE <<>>

\* confirmDelete (Dashboard and ViewReference): retract only a published
\* public reference
DeleteSteps(reference) ==
  IF Truthy(reference.eventId) /\ reference.visibility = "public"
    THEN <<RetractStep("Deleted by user")>>
    ELSE <<>>

OkToast(kind, networked) ==
  IF kind = "add" THEN (IF networked THEN "Reference Published" ELSE "Reference Saved")
  ELSE IF kind = "edit" THEN "Reference Updated"
  ELSE IF kind = "delete" THEN "Reference Deleted"
  ELSE ""

FailToast(kind) ==
  IF kind = "add" THEN "Local Only"
  ELSE IF kind = "edit" THEN "Partial Update"
  ELSE IF kind = "delete" THEN "Error"
  ELSE ""

IdleHandler(kind) ==
  [kind |-> kind, pc |-> "done", steps |-> <<>>, reference |-> NullReference,
   updated |-> NullReference, outcome |-> "ok",
   error |-> "", toast |-> "", ret |-> Undefined, user |-> user]

\* a handler that has done its local-storage part and goes on to `steps`
StartHandler(kind, reference, updated, steps) ==
  [kind |-> kind, pc |-> IF steps = <<>> THEN "done" ELSE "net",
   steps |-> steps, reference |-> reference, updated |-> updated,
   outcome |-> IF steps = <<>> THEN "ok" ELSE "running",
   error |-> "",
   toast |-> IF steps = <<>> THEN OkToast(kind, FALSE) ELSE "",
   ret |-> Undefined, user |-> user]

\* the outer catch: saveReferences threw (or updateReference returned null)
StorageFailedHandler(kind, reference) ==
  [kind |-> kind, pc |-> "done", steps |-> <<>>, reference |-> reference,
   updated |-> NullReference, outcome |-> "failed",
   error |-> "IOFailure", toast |-> "Error", ret |-> Undefined,
   user |-> user]

\* the promise rejected: the handler's catch block ends the handler
Rejected(h, err) ==
  [h EXCEPT !.pc = "done", !.steps = <<>>, !.outcome = "failed",
            !.error = err, !.toast = FailToast(h.kind)]

\* the promise resolved with `ret`: the handler goes on to its next await
Resolved(h, ret) ==
  LET rest == Tail(h.steps)
  IN  [h EXCEPT !.steps = rest, !.ret = ret,
                !.pc = IF rest = <<>> THEN "done" ELSE "net",
                !.outcome = IF rest = <<>> THEN "ok" ELSE "running",
                !.toast = IF rest = <<>> THEN OkToast(h.kind, TRUE) ELSE ""]

\* variant: a failed send is tried again
OnSendResult_retries(h, ok, ret) ==
  IF ok THEN Resolved(h, ret) ELSE h

\* onSuccess / onError of publishEvent (mutations are not retried)
OnSendResult(h, ok, ret) ==
  IF ok THEN Resolved(h, ret) ELSE Rejected(h, "TransportFailure")

Idle == hnd.pc = "done"

\* --------------------------------------------------------------- actions
Init ==
  /\ library = <<>>
  /\ wire = <<>>
  /\ user = NoUser
  /\ now = 0
  /\ nextId = 0
  /\ hnd = [kind |-> "none", pc |-> "done", steps |-> <<>>,
            reference |-> NullReference, updated |-> NullReference,
            outcome |-> "ok", error |-> "", toast |-> "",
            ret |-> Undefined, user |-> NoUser]
  /\ calls = <<>>

\* Date.now() advances
Tick ==
  /\ now < MaxClock
  /\ now' = now + 1
  /\ UNCHANGED <<library, wire, user, nextId, hnd, calls>>

\* useCurrentUser.login
Login ==
  /\ Idle
  /\ user = NoUser
  /\ user' = DemoPubkey
  /\ UNCHANGED <<library, wire, now, nextId, hnd, calls>>

\* useCurrentUser.logout
Logout ==
  /\ Idle
  /\ user # NoUser
  /\ user' = NoUser
  /\ UNCHANGED <<library, wire, now, nextId, hnd, calls>>

\* AddReference.handleSubmit up to the first transport call
AddSubmit ==
  /\ Idle
  /\ nextId < MaxRefs
  /\ \E data \in ReferenceFormData, saveOk \in BOOLEAN :
       LET newReference == NewReference(data, generateUniqueId(nextId + 1), now)
           steps == IF user # NoUser THEN AddSteps(data) ELSE <<>>
       IN  /\ nextId' = nextId + 1
           /\ IF saveOk
                THEN /\ library' = Append(library, newReference)
                     /\ hnd' = StartHandler("add", NullReference, newReference, steps)
                ELSE /\ library' = library
                     /\ hnd' = StorageFailedHandler("add", NullReference)
  /\ wire' = <<>>
  /\ UNCHANGED <<user, now, calls>>

\* EditReference.handleSubmit up to the first transport call
EditSubmit ==
  /\ Idle
  /\ \E i \in 1..Len(library), data \in ReferenceFormData, saveOk \in BOOLEAN :
       LET reference == library[i]
           updatedReference == UpdatedReference(reference, data, now)
           steps == IF user # NoUser THEN EditSteps(reference, data) ELSE <<>>
       IN  IF saveOk
                THEN /\ library' = [library EXCEPT ![i] = updatedReference]
                     /\ hnd' = StartHandler("edit", reference, updatedReference, steps)
                ELSE /\ library' = library
                     /\ hnd' = StorageFailedHandler("edit", reference)
  /\ wire' = <<>>
  /\ UNCHANGED <<user, now, nextId, calls>>

\* variant: the record leaves the library only after the retraction
ConfirmDelete_retractFirst ==
  /\ Idle
  /\ \E i \in 1..Len(library), saveOk \in BOOLEAN :
       LET reference == library[i]
           steps == DeleteSteps(reference)
       IN  IF saveOk
                THEN /\ library' = IF steps = <<>>
                                     THEN FilterOutId(library, reference.id)
                                     ELSE library
                     /\ hnd' = StartHandler("delete", reference, reference, steps)
                ELSE /\ library' = library
                     /\ hnd' = StorageFailedHandler("delete", reference)
  /\ wire' = <<>>
  /\ UNCHANGED <<user, now, nextId, calls>>

\* confirmDelete up to the transport call
ConfirmDelete ==
  /\ Idle
  /\ \E i \in 1..Len(library), saveOk \in BOOLEAN :
       LET reference == library[i]
           steps == DeleteSteps(reference)
       IN  IF saveOk
                THEN /\ library' = FilterOutId(library, reference.id)
                     /\ hnd' = StartHandler("delete", reference, reference, steps)
                ELSE /\ library' = library
                     /\ hnd' = StorageFailedHandler("delete", reference)
  /\ wire' = <<>>
  /\ UNCHANGED <<user, now, nextId, calls>>

\* a caller awaiting useRetractReference().mutateAsync({reference}) directly
RetractCall ==
  /\ Idle
  /\ \E i \in 1..Len(library) :
       hnd' = StartHandler("retract", library[i], library[i],
                           <<RetractStep("Deleted by user")>>)
  /\ wire' = <<>>
  /\ UNCHANGED <<library, user, now, nextId, calls>>

\* the identifiers a caller can hold: what the publish hooks resolve with
KnownEventIds == {PLACEHOLDER_PUBLIC, PLACEHOLDER_PRIVATE}

\* updateReferenceEventId(id, eventId)
SetEventId ==
  /\ Idle
  /\ \E i \in 1..Len(library) : \E eventId \in KnownEventIds :
       /\ library' = [library EXCEPT ![i] = WithEventId(library[i], eventId, now)]
       /\ hnd' = [IdleHandler("setEventId") EXCEPT !.updated = library'[i]]
  /\ wire' = <<>>
  /\ UNCHANGED <<user, now, nextId, calls>>

\* confirmDeleteAll (Settings): deleteReference for each reference in turn
\* inside one try, no hook call; the first saveReferences that throws ends
\* the loop. `k` is the number of deleteReference calls that went through.
ConfirmDeleteAll ==
  /\ Idle
  /\ \E k \in 0..Len(library), saveOk \in BOOLEAN :
       /\ saveOk <=> k = Len(library)
       /\ library' = SubSeq(library, k + 1, Len(library))
       /\ hnd' = [IdleHandler("deleteAll") EXCEPT
                    !.outcome = IF saveOk THEN "ok" ELSE "failed",
                    !.error = IF saveOk THEN "" ELSE "IOFailure",
                    !.toast = IF saveOk THEN "References Deleted" ELSE "Error"]
  /\ wire' = <<>>
  /\ UNCHANGED <<user, now, nextId, calls>>

\* one awaited hook call of the handler in flight
NetStep ==
  /\ hnd.pc = "net"
  /\ LET s == Head(hnd.steps)
         arg == IF s.op = "retract" THEN hnd.reference ELSE hnd.updated
         thrown == HookThrows(s.op, arg, user)
     IN  IF thrown # ""
           THEN /\ hnd' = Rejected(hnd, thrown)
                /\ wire' = wire
           ELSE \E ok \in BOOLEAN, iv \in 1..NumIVs :
                  /\ wire' = Append(wire,
                       [event |-> EventTemplate(s, arg, user, iv, now),
                        ok |-> ok,
                        id |-> EventIdOf(EventTemplate(s, arg, user, iv, now)),
                        ret |-> IF ok THEN HookResolves(s.op) ELSE Undefined,
                        rec |-> arg,
                        vis |-> IF HasId(library, arg.id)
                                  THEN getReference(library, arg.id).visibility
                                  ELSE arg.visibility])
                  /\ hnd' = OnSendResult(hnd, ok, HookResolves(s.op))
  /\ UNCHANGED <<library, user, now, nextId, calls>>

Next ==
  \/ Tick
  \/ Login
  \/ Logout
  \/ AddSubmit
  \/ EditSubmit
  \/ ConfirmDelete
  \/ RetractCall
  \/ SetEventId
  \/ ConfirmDeleteAll
  \/ NetStep

Spec == Init /\ [][Next]_vars

\* ------------------------------------------------------------ vocabulary
PublishKinds == {REFERENCE_PUBLIC_KIND, REFERENCE_PRIVATE_KIND}

IsPublish(w) == w.event.kind \in PublishKinds

IsRetractionOf(w, eventId) ==
  /\ w.event.kind = REFERENCE_DELETE_KIND
  /\ w.event.tags = << <<"e", eventId>> >>

SeqRange(q) == { q[i] : i \in 1..Len(q) }

\* every text an observer of the relay can read off an event
ClearText(ev) ==
  UNION { SeqRange(ev.tags[i]) : i \in 1..Len(ev.tags) }
    \cup (IF ev.content.enc THEN {} ELSE SeqRange(ev.content.text))

\* the bibliographic texts of a record
FieldTexts(r) ==
  ({r.title, r.doi, r.notes} \cup SeqRange(r.authors)
     \cup (IF r.year # NoYear THEN {ToString(r.year)} ELSE {}))
    \ {Undefined, ""}

LastSent == wire[Len(wire)]

RetractedBefore(i, eventId) ==
  \E j \in 1..(i - 1) : IsRetractionOf(wire[j], eventId)

\* the edit handler got past updateReference
EditSaved == hnd.kind = "edit" /\ hnd.error # "IOFailure"

EditUnchangedVisibility ==
  /\ EditSaved
  /\ Truthy(hnd.reference.eventId)
  /\ hnd.reference.visibility = hnd.updated.visibility

EditFlippedVisibility ==
  /\ EditSaved
  /\ Truthy(hnd.reference.eventId)
  /\ hnd.reference.visibility # hnd.updated.visibility

\* ------------------------------------------------------------------- C1
\* C1: after a publish whose transport send succeeds, the record stored in
\* the library has eventId equal to the identifier the transport gave the
\* event of that send.
C1_PublishSetsNetworkRef ==
  ( /\ hnd.kind \in {"add", "edit"}
    /\ hnd.pc = "done"
    /\ hnd.outcome = "ok"
    /\ wire # <<>>
    /\ IsPublish(LastSent)
    /\ LastSent.ok
    /\ HasId(library, hnd.updated.id) )
  => getReference(library, hnd.updated.id).eventId = LastSent.id

\* ------------------------------------------------------------------- C2
\* C2: every non-retraction event sent for a record that is private when the
\* event is sent has kind 50001, an encrypted content, exactly the tags
\* client-ref-id and e-type, and shows none of the record's title, authors,
\* year, doi or notes in cleartext.
C2_PrivateNeverCleartext ==
  \A i \in 1..Len(wire) :
    LET w == wire[i]
    IN  (w.vis = "private" /\ w.event.kind # REFERENCE_DELETE_KIND)
        => /\ w.event.kind = REFERENCE_PRIVATE_KIND
           /\ w.event.content.enc
           /\ w.event.tags = << <<"client-ref-id", w.rec.id>>,
                                <<"e-type", "reference">> >>
           /\ ClearText(w.event) \cap FieldTexts(w.rec) = {}

C2_Witness ==
  /\ hnd.kind = "edit"
  /\ \E i \in 1..Len(wire) :
       /\ wire[i].vis = "private"
       /\ wire[i].event.kind = REFERENCE_PRIVATE_KIND
       /\ Truthy(wire[i].rec.notes)
       /\ wire[i].ok

\* ------------------------------------------------------------------- C3
\* C3: the public event of a record never carries the record's notes, in its
\* content or in any tag, and has no tag named notes.
C3_PublicEventOmitsNotes ==
  \A i \in 1..Len(wire) :
    LET w == wire[i]
    IN  w.event.kind = REFERENCE_PUBLIC_KIND
        => /\ Truthy(w.rec.notes) => w.rec.notes \notin ClearText(w.event)
           /\ \A k \in 1..Len(w.event.tags) : w.event.tags[k][1] # "notes"

C3_Witness ==
  \E i \in 1..Len(wire) :
    /\ wire[i].event.kind = REFERENCE_PUBLIC_KIND
    /\ Truthy(wire[i].rec.notes)
    /\ wire[i].rec.title \in ClearText(wire[i].event)

\* ------------------------------------------------------------------- C4
\* C4 (as stated): in an update of a record with a prior eventId and unchanged
\* visibility, public or private, every event carrying the new encoding is
\* preceded by a retraction of the old eventId.
C4_RetractBeforePublishUnchanged ==
  EditUnchangedVisibility
  => \A i \in 1..Len(wire) :
       IsPublish(wire[i]) => RetractedBefore(i, hnd.reference.eventId)

\* C4 (amended): when the unchanged visibility is public, the handler of a
\* logged-in user first sends a retraction of the old eventId and every event
\* carrying the new encoding comes after it; when the unchanged visibility is
\* private, the new encrypted event is sent and no retraction at all.
C4_RetractBeforePublishPublicOnly ==
  EditUnchangedVisibility
  => /\ hnd.updated.visibility = "public"
        => /\ \A i \in 1..Len(wire) :
                IsPublish(wire[i]) => RetractedBefore(i, hnd.reference.eventId)
           /\ (hnd.pc = "done" /\ hnd.user # NoUser)
                => /\ wire # <<>>
                   /\ IsRetractionOf(wire[1], hnd.reference.eventId)
     /\ hnd.updated.visibility = "private"
        => /\ \A i \in 1..Len(wire) :
                wire[i].event.kind = REFERENCE_PRIVATE_KIND
           /\ (hnd.pc = "done" /\ hnd.user # NoUser) => Len(wire) = 1

C4_Witness ==
  /\ EditUnchangedVisibility
  /\ hnd.updated.visibility = "public"
  /\ hnd.pc = "done"
  /\ Len(wire) = 2
  /\ IsRetractionOf(wire[1], hnd.reference.eventId)
  /\ wire[2].event.kind = REFERENCE_PUBLIC_KIND

\* ------------------------------------------------------------------- C5
\* C5: in an update with unchanged visibility, a retraction that fails at the
\* transport is still followed by the send of the new encoding.
C5_RetractFailureDoesNotBlockPublish ==
  (EditUnchangedVisibility /\ hnd.pc = "done")
  => \A j \in 1..Len(wire) :
       (wire[j].event.kind = REFERENCE_DELETE_KIND /\ ~wire[j].ok)
       => \E i \in (j + 1)..Len(wire) : IsPublish(wire[i])

\* ------------------------------------------------------------------- C6
\* C6: in an update of a record with a prior eventId that flips visibility,
\* in either direction, every event under the new visibility's encoding is
\* preceded by a retraction of the old eventId.
C6_FlipRetractsThenPublishes ==
  EditFlippedVisibility
  => \A i \in 1..Len(wire) :
       IsPublish(wire[i])
       => /\ RetractedBefore(i, hnd.reference.eventId)
          /\ wire[i].event.kind =
               (IF hnd.updated.visibility = "public"
                  THEN REFERENCE_PUBLIC_KIND ELSE REFERENCE_PRIVATE_KIND)

\* ------------------------------------------------------------------- C7
\* C7: after a successful update that flips a published record from private
\* to public, the stored eventId is the identifier of the public event just
\* published and no longer the eventId the private record had.
C7_FlipToPublicLeavesOnlyPublicRef ==
  ( /\ EditFlippedVisibility
    /\ hnd.updated.visibility = "public"
    /\ hnd.pc = "done"
    /\ hnd.outcome = "ok"
    /\ hnd.user # NoUser
    /\ HasId(library, hnd.updated.id) )
  => LET r == getReference(library, hnd.updated.id)
     IN  /\ wire # <<>>
         /\ LastSent.event.kind = REFERENCE_PUBLIC_KIND
         /\ r.eventId \in {LastSent.id, LastSent.ret}
         /\ r.eventId # hnd.reference.eventId

\* ------------------------------------------------------------------- C8
\* C8: once the retraction of a record's eventId has been accepted by the
\* transport, the stored record has no eventId.
C8_RetractClearsNetworkRef ==
  ( /\ wire # <<>>
    /\ LastSent.event.kind = REFERENCE_DELETE_KIND
    /\ LastSent.ok
    /\ HasId(library, LastSent.rec.id) )
  => ~Truthy(getReference(library, LastSent.rec.id).eventId)

\* ------------------------------------------------------------------- C9
\* C9: a retract call for a record without eventId is rejected with the
\* not-published error, hands no event to the transport and leaves the
\* library as it was.
C9_RetractUnpublishedFails ==
  [][ ( /\ hnd.pc = "net"
        /\ Head(hnd.steps).op = "retract"
        /\ ~Truthy(hnd.reference.eventId)
        /\ hnd' # hnd )
      => /\ hnd'.pc = "done"
         /\ hnd'.outcome = "failed"
         /\ hnd'.error = "NotPublished"
         /\ wire' = wire
         /\ library' = library ]_vars

C9_Witness ==
  /\ hnd.kind = "retract"
  /\ hnd.error = "NotPublished"
  /\ ~Truthy(hnd.reference.eventId)
  /\ wire = <<>>

\* ------------------------------------------------------------------ C10
\* C10: when the transport rejects a publish event, the library is left as
\* it was when the publish was called, the handler ends with the failure
\* reported, and so sends nothing more for that call.
C10_PublishFailureNoMutationNoRetry ==
  [][ ( /\ Len(wire') = Len(wire) + 1
        /\ IsPublish(wire'[Len(wire')])
        /\ ~wire'[Len(wire')].ok )
      => /\ library' = library
         /\ hnd'.pc = "done"
         /\ hnd'.steps = <<>>
         /\ hnd'.outcome = "failed"
         /\ hnd'.error = "TransportFailure"
         /\ hnd.kind = "add" => hnd'.toast = "Local Only"
         /\ hnd.kind = "edit" => hnd'.toast = "Partial Update" ]_vars

C10_Witness ==
  /\ hnd.pc = "done"
  /\ hnd.outcome = "failed"
  /\ hnd.error = "TransportFailure"
  /\ wire # <<>>
  /\ IsPublish(LastSent)
  /\ ~LastSent.ok

\* ------------------------------------------------------------------ C11
\* C11: when, during an update, the retraction of the old eventId was
\* accepted by the transport and the publish that followed it was rejected,
\* the stored record has no eventId.
C11_RepublishFailureClearsNetworkRef ==
  ( /\ EditSaved
    /\ hnd.pc = "done"
    /\ Len(wire) = 2
    /\ IsRetractionOf(wire[1], hnd.reference.eventId)
    /\ wire[1].ok
    /\ IsPublish(wire[2])
    /\ ~wire[2].ok
    /\ HasId(library, hnd.updated.id) )
  => ~Truthy(getReference(library, hnd.updated.id).eventId)

\* ------------------------------------------------------------------ C12
\* C12: a stored record that has an eventId and has not changed since its
\* last accepted publish has, as eventId, the identifier of the event of
\* that publish (the one the transport gave it, or the one the publish hook
\* resolved with).
C12_NetworkRefIsLatestPublish ==
  ( /\ hnd.kind \in {"add", "edit"}
    /\ hnd.pc = "done"
    /\ hnd.outcome = "ok"
    /\ wire # <<>>
    /\ IsPublish(LastSent)
    /\ LastSent.ok
    /\ HasId(library, hnd.updated.id)
    /\ getReference(library, hnd.updated.id) = hnd.updated
    /\ Truthy(hnd.updated.eventId) )
  => hnd.updated.eventId \in {LastSent.id, LastSent.ret}

SvcFormData == {d \in ReferenceFormData : d.title = "Title One"}

NoFormData ==
  [title |-> "", authors |-> <<>>, year |-> NoYear, journalOrBook |-> Undefined,
   doi |-> Undefined, url |-> Undefined, tags |-> <<>>, notes |-> Undefined,
   visibility |-> "private"]

\* the record ids some call in flight is about
TargetedIds ==
  {calls[i].id : i \in {j \in 1..Len(calls) : calls[j].state = "pending"}}

\* a call up to its first await: the list getAllReferences read
PendingCall(op, id, data, eventId) ==
  [op |-> op, id |-> id, data |-> data, eventId |-> eventId,
   references |-> library, state |-> "pending", result |-> ""]

\* the list a resumed call hands to saveReferences (the list it read, when
\* it returns null/false without saving)
ResumedList(c, id, t) ==
  LET references == c.references
      index == IndexOfId(references, c.id)
  IN  IF c.op = "create"
        THEN Append(references, NewReference(c.data, id, t))
      ELSE IF index = 0
        THEN references
      ELSE IF c.op = "update"
        THEN [references EXCEPT ![index] =
                UpdatedReference(references[index], c.data, t)]
      ELSE IF c.op = "delete"
        THEN FilterOutId(references, c.id)
      ELSE [references EXCEPT ![index] =
                WithEventId(references[index], c.eventId, t)]

\* whether the resumed call reaches saveReferences at all
Saves(c) == c.op = "create" \/ HasId(c.references, c.id)

\* the call after its return: its locals are gone, its result is known
ReturnedCall(c, id, saveOk) ==
  [c EXCEPT !.state = "returned",
            !.references = <<>>,
            !.id = IF c.op = "create" /\ saveOk THEN id ELSE c.id,
            !.result = IF ~Saves(c) THEN "notFound"
                       ELSE IF saveOk THEN "ok" ELSE "IOFailure"]

SvcInit ==
  /\ library = <<>>
  /\ wire = <<>>
  /\ user = NoUser
  /\ now = 0
  /\ nextId = 0
  /\ hnd = [kind |-> "none", pc |-> "done", steps |-> <<>>,
            reference |-> NullReference, updated |-> NullReference,
            outcome |-> "ok", error |-> "", toast |-> "",
            ret |-> Undefined, user |-> NoUser]
  /\ calls = <<>>

\* createReference(referenceData) up to its first await
CallCreate ==
  /\ Len(calls) < MaxCalls
  /\ \E data \in SvcFormData :
       calls' = Append(calls, PendingCall("create", Undefined, data, Undefined))
  /\ UNCHANGED <<library, wire, user, now, nextId, hnd>>

\* updateReference(id, referenceData) up to its first await
CallUpdate ==
  /\ Len(calls) < MaxCalls
  /\ \E i \in 1..Len(library), data \in SvcFormData :
       /\ library[i].id \notin TargetedIds
       /\ calls' = Append(calls,
                     PendingCall("update", library[i].id, data, Undefined))
  /\ UNCHANGED <<library, wire, user, now, nextId, hnd>>

\* deleteReference(id) up to its first await
CallDelete ==
  /\ Len(calls) < MaxCalls
  /\ \E i \in 1..Len(library) :
       /\ library[i].id \notin TargetedIds
       /\ calls' = Append(calls,
                     PendingCall("delete", library[i].id, NoFormData, Undefined))
  /\ UNCHANGED <<library, wire, user, now, nextId, hnd>>

\* updateReferenceEventId(id, eventId) up to its first await
CallSetEventId ==
  /\ Len(calls) < MaxCalls
  /\ \E i \in 1..Len(library) :
       /\ library[i].id \notin TargetedIds
       /\ calls' = Append(calls,
                     PendingCall("setEventId", library[i].id, NoFormData,
                                 PLACEHOLDER_PUBLIC))
  /\ UNCHANGED <<library, wire, user, now, nextId, hnd>>

\* a suspended call runs on from its await to its return
ResumeCall ==
  /\ \E i \in 1..Len(calls), saveOk \in BOOLEAN :
       LET c == calls[i]
           id == generateUniqueId(nextId)
       IN  /\ c.state = "pending"
           /\ calls' = [calls EXCEPT ![i] = ReturnedCall(c, id, saveOk)]
           /\ library' = IF Saves(c) /\ saveOk
                           THEN ResumedList(c, id, now)
                           ELSE library
           /\ nextId' = IF c.op = "create" THEN nextId + 1 ELSE nextId
  /\ UNCHANGED <<wire, user, now, hnd>>

SvcNext ==
  \/ CallCreate
  \/ CallUpdate
  \/ CallDelete
  \/ CallSetEventId
  \/ ResumeCall

SpecSvc == SvcInit /\ [][SvcNext]_vars

\* the stored record with this id, or NullReference
Stored(refs, id) == IF HasId(refs, id) THEN getReference(refs, id) ELSE NullReference

SvcIds == {generateUniqueId(n) : n \in 0..MaxCalls}

\* ------------------------------------------------------------------ C13
\* C13: with calls in flight that are about pairwise distinct record ids,
\* a call that returns leaves every record but the one it is about as it is
\* in the library: no record created, edited or deleted by another call is
\* lost or brought back.
C13_DistinctIdsDoNotInterfere ==
  [][ \A i \in 1..Len(calls) :
        (calls[i].state = "pending" /\ calls'[i].state = "returned")
        => LET target == IF calls[i].op = "create"
                           THEN generateUniqueId(nextId)
                           ELSE calls[i].id
           IN  \A id \in SvcIds \ {target} :
                 Stored(library', id) = Stored(library, id) ]_vars

\* =======================================================================
\* The public event codec: usePublishPublicReference builds the event from
\* a record, useFetchPublicReferences builds a record from an event.
\* =======================================================================
\* the page handlers and the library at rest
AppAtRest ==
  /\ library = <<>>
  /\ wire = <<>>
  /\ user = NoUser
  /\ now = 0
  /\ nextId = 0
  /\ hnd = [kind |-> "none", pc |-> "done", steps |-> <<>>,
            reference |-> NullReference, updated |-> NullReference,
            outcome |-> "ok", error |-> "", toast |-> "",
            ret |-> Undefined, user |-> NoUser]

NaN == -2                       \* parseInt of a text that starts with no digit

\* the years the records below carry; referenceSchema admits 0
YearValues == {0, 2020}

\* parseInt on the texts ToString makes of those years
parseInt(s) ==
  IF \E n \in YearValues : ToString(n) = s
    THEN CHOOSE n \in YearValues : ToString(n) = s
    ELSE NaN

\* valid records (referenceSchema): title non-empty, optional fields absent,
\* empty (the form's default '') or filled
EvtFormData ==
  { [title |-> "Title One", authors |-> a, year |-> y, journalOrBook |-> j,
     doi |-> d, url |-> u, tags |-> t, notes |-> Undefined,
     visibility |-> "public"]
      : a \in {<<"Ann Lee">>, <<"Ann Lee", "Bo Diaz">>, <<"Bo Diaz", "Ann Lee">>},
        y \in YearValues \cup {NoYear},
        j \in {Undefined, "", "Journal J"},
        d \in {Undefined, "10.1000/one"},
        u \in {Undefined, "", "https://u.example"},
        t \in {<<>>, <<"ml">>, <<"ml", "ai">>, <<"ai", "ml">>} }

\* event.tags.find(tag => tag[0] === name)?.[1]
FindTag(tags, name) ==
  IF \E i \in 1..Len(tags) : tags[i][1] = name
    THEN tags[CHOOSE i \in 1..Len(tags) :
                /\ tags[i][1] = name
                /\ \A j \in 1..(i - 1) : tags[j][1] # name][2]
    ELSE Undefined

\* event.tags.filter(tag => tag[0] === name).map(tag => tag[1])
FilterTags(tags, name) ==
  LET hits == SelectSeq(tags, LAMBDA tag : tag[1] = name)
  IN  [i \in 1..Len(hits) |-> hits[i][2]]

\* the record useFetchPublicReferences makes of an event
fromPublicEvent(event, eventId) ==
  [id |-> IF Truthy(FindTag(event.tags, "client-ref-id"))
            THEN FindTag(event.tags, "client-ref-id") ELSE eventId,
   title |-> IF Truthy(FindTag(event.tags, "title"))
               THEN FindTag(event.tags, "title") ELSE "Untitled Reference",
   authors |-> FilterTags(event.tags, "author"),
   year |-> IF FindTag(event.tags, "year") # Undefined
              THEN parseInt(FindTag(event.tags, "year")) ELSE NoYear,
   journalOrBook |-> FindTag(event.tags, "journal"),
   doi |-> FindTag(event.tags, "doi"),
   url |-> FindTag(event.tags, "url"),
   tags |-> FilterTags(event.tags, "t"),
   notes |-> Undefined,
   visibility |-> "public",
   createdAt |-> event.created_at,
   updatedAt |-> event.created_at,
   eventId |-> eventId]

EvtInit ==
  /\ AppAtRest
  /\ calls = <<>>

\* usePublishPublicReference builds the event of a record
EncodePublic ==
  /\ calls = <<>>
  /\ \E data \in EvtFormData :
       LET r == NewReference(data, generateUniqueId(0), now)
       IN  calls' = <<[op |-> "publishPublic", reference |-> r,
                       event |-> PublicEventTemplate(r, now),
                       decoded |-> NullReference, state |-> "encoded"]>>
  /\ UNCHANGED <<library, wire, user, now, nextId, hnd>>

\* useFetchPublicReferences maps the event back to a record
DecodePublic ==
  /\ Len(calls) = 1
  /\ calls[1].state = "encoded"
  /\ calls' = <<[calls[1] EXCEPT
                   !.decoded = fromPublicEvent(calls[1].event,
                                               EventIdOf(calls[1].event)),
                   !.state = "decoded"]>>
  /\ UNCHANGED <<library, wire, user, now, nextId, hnd>>

EvtNext ==
  \/ EncodePublic
  \/ DecodePublic

SpecEvt == EvtInit /\ [][EvtNext]_vars

\* an optional text that is absent or the empty text of an untouched field
Blank(s) == IF s = "" THEN Undefined ELSE s

\* ------------------------------------------------------------------ C15
\* C15: the record decoded from the public event of a valid record has the
\* same title, the same authors in the same order, the same year, container,
\* doi and url (an empty text counting as absent) and the same set of tags.
C15_PublicEventRoundTrip ==
  (Len(calls) = 1 /\ calls[1].state = "decoded")
  => LET r == calls[1].reference
         d == calls[1].decoded
     IN  /\ d.title = r.title
         /\ d.authors = r.authors
         /\ d.year = r.year
         /\ Blank(d.journalOrBook) = Blank(r.journalOrBook)
         /\ Blank(d.doi) = Blank(r.doi)
         /\ Blank(d.url) = Blank(r.url)
         /\ SeqRange(d.tags) = SeqRange(r.tags)

\* =======================================================================
\* Direct calls of encryptData and decryptData (utils/validators.ts).
\* =======================================================================
Plaintexts ==
  { <<>>, <<"Title One">>, <<"secret note", "ml">>, <<"note ", LoneSurrogate>> }

Pubkeys == {DemoPubkey, "npub1other"}

CryptoKeys == {deriveEncryptionKey(pk) : pk \in Pubkeys}

WellFormed(text) == \A i \in 1..Len(text) : text[i] # LoneSurrogate

CryptoInit ==
  /\ AppAtRest
  /\ calls = <<>>

\* await encryptData(data, key)
EncryptCall ==
  /\ Len(calls) < MaxCalls
  /\ \E data \in Plaintexts, key \in CryptoKeys, iv \in 1..NumNonces :
       calls' = Append(calls,
                  [op |-> "encrypt", data |-> data, key |-> key, iv |-> iv,
                   blob |-> encryptData(data, key, iv),
                   ok |-> TRUE, error |-> "", text |-> <<>>, of |-> 0])
  /\ UNCHANGED <<library, wire, user, now, nextId, hnd>>

\* await decryptData(encryptedData, key) on a blob an earlier call returned
DecryptCall ==
  /\ Len(calls) < MaxCalls
  /\ \E j \in 1..Len(calls), key \in CryptoKeys :
       /\ calls[j].op = "encrypt"
       /\ LET res == decryptData(calls[j].blob, key)
          IN  calls' = Append(calls,
                         [op |-> "decrypt", data |-> <<>>, key |-> key, iv |-> 0,
                          blob |-> calls[j].blob,
                          ok |-> res.ok, error |-> res.error,
                          text |-> res.text, of |-> j])
  /\ UNCHANGED <<library, wire, user, now, nextId, hnd>>

CryptoNext ==
  \/ EncryptCall
  \/ DecryptCall

SpecCrypto == CryptoInit /\ [][CryptoNext]_vars

Decrypts == {i \in 1..Len(calls) : calls[i].op = "decrypt"}
Encrypts == {i \in 1..Len(calls) : calls[i].op = "encrypt"}

LowerCase == <<"a", "b", "c", "d", "e", "f", "g", "h", "i", "j", "k", "l", "m", "n", "o", "p", "q", "r", "s", "t", "u", "v", "w", "x", "y", "z">>
UpperCase == <<"A", "B", "C", "D", "E", "F", "G", "H", "I", "J", "K", "L", "M", "N", "O", "P", "Q", "R", "S", "T", "U", "V", "W", "X", "Y", "Z">>
Digits == <<"0", "1", "2", "3", "4", "5", "6", "7", "8", "9">>

\* \w and \s of the regular expressions
IsWordChar(c) ==
  c \in SeqRange(LowerCase) \cup SeqRange(UpperCase) \cup SeqRange(Digits) \cup {"_"}
IsSpace(c) == c \in {" ", "\n", "\t", "\r"}

\* an optional text that is absent (undefined)
Absent == <<Undefined>>
TruthyText(s) == s # Absent /\ s # <<>>

\* String.prototype.toLowerCase
toLowerCase(s) ==
  [i \in 1..Len(s) |->
     IF \E k \in 1..Len(UpperCase) : UpperCase[k] = s[i]
       THEN LowerCase[CHOOSE k \in 1..Len(UpperCase) : UpperCase[k] = s[i]]
       ELSE s[i]]

\* String.prototype.trim
trim(s) ==
  IF \A i \in 1..Len(s) : IsSpace(s[i])
    THEN <<>>
    ELSE LET a == CHOOSE i \in 1..Len(s) :
                    ~IsSpace(s[i]) /\ \A j \in 1..(i - 1) : IsSpace(s[j])
             b == CHOOSE i \in 1..Len(s) :
                    ~IsSpace(s[i]) /\ \A j \in (i + 1)..Len(s) : IsSpace(s[j])
         IN  SubSeq(s, a, b)

\* whether `pat` stands in `s` at index i
OccursAt(s, pat, i) ==
  /\ i >= 1
  /\ i + Len(pat) - 1 <= Len(s)
  /\ SubSeq(s, i, i + Len(pat) - 1) = pat

\* String.prototype.indexOf(pat, from), 1-based; 0 when there is none
indexOf(s, pat, from) ==
  IF \E i \in from..Len(s) : OccursAt(s, pat, i)
    THEN CHOOSE i \in from..Len(s) :
           OccursAt(s, pat, i) /\ \A j \in from..(i - 1) : ~OccursAt(s, pat, j)
    ELSE 0

\* String.prototype.includes
includes(s, pat) == indexOf(s, pat, 1) # 0

\* String.prototype.split(sep) for a non-empty separator text
RECURSIVE split(_, _)
split(s, sep) ==
  LET i == indexOf(s, sep, 1)
  IN  IF i = 0
        THEN <<s>>
        ELSE <<SubSeq(s, 1, i - 1)>> \o split(SubSeq(s, i + Len(sep), Len(s)), sep)

\* Array.prototype.join(sep)
RECURSIVE join(_, _)
join(parts, sep) ==
  IF parts = <<>> THEN <<>>
  ELSE IF Len(parts) = 1 THEN parts[1]
  ELSE parts[1] \o sep \o join(Tail(parts), sep)

\* the end of the run of word / space / digit characters that starts at i
\* (i - 1 when s[i] is not of the class)
WordRunEnd(s, i) ==
  CHOOSE e \in (i - 1)..Len(s) :
    /\ \A j \in i..e : IsWordChar(s[j])
    /\ e = Len(s) \/ ~IsWordChar(s[e + 1])

SpaceRunEnd(s, i) ==
  CHOOSE e \in (i - 1)..Len(s) :
    /\ \A j \in i..e : IsSpace(s[j])
    /\ e = Len(s) \/ ~IsSpace(s[e + 1])

DigitRunEnd(s, i) ==
  CHOOSE e \in (i - 1)..Len(s) :
    /\ \A j \in i..e : s[j] \in SeqRange(Digits)
    /\ e = Len(s) \/ s[e + 1] \notin SeqRange(Digits)

\* Number.prototype.toString of a non-negative integer
RECURSIVE NumberToText(_)
NumberToText(n) ==
  IF n < 10 THEN <<Digits[n + 1]>>
  ELSE NumberToText(n \div 10) \o <<Digits[(n % 10) + 1]>>

DigitValue(c) == (CHOOSE k \in 1..Len(Digits) : Digits[k] = c) - 1

RECURSIVE DigitsValue(_)
DigitsValue(ds) ==
  IF ds = <<>> THEN 0
  ELSE 10 * DigitsValue(SubSeq(ds, 1, Len(ds) - 1)) + DigitValue(ds[Len(ds)])

\* parseInt of a text: leading white space is skipped, the leading run of
\* digits is the value, NaN when there is none
parseIntText(s) ==
  LET a == SpaceRunEnd(s, 1) + 1
      b == DigitRunEnd(s, a)
  IN  IF b < a THEN NaN ELSE DigitsValue(SubSeq(s, a, b))

\* ------------------------------------------------------ createCitationKey
skipWords ==
  { <<"a">>, <<"a", "n">>, <<"t", "h", "e">>, <<"o", "n">>, <<"i", "n">>, <<"a", "t">>, <<"t", "o">>,
    <<"f", "o", "r">>, <<"o", "f">> }

\* String.prototype.split(/\s+/)
RECURSIVE splitSpaces(_)
splitSpaces(s) ==
  IF \A i \in 1..Len(s) : ~IsSpace(s[i])
    THEN <<s>>
    ELSE LET i == CHOOSE k \in 1..Len(s) :
                    IsSpace(s[k]) /\ \A j \in 1..(k - 1) : ~IsSpace(s[j])
             e == SpaceRunEnd(s, i)
         IN  <<SubSeq(s, 1, i - 1)>> \o splitSpaces(SubSeq(s, e + 1, Len(s)))

\* firstAuthor.match(/(\S+)$/): the run of non-space characters at the end
lastNameOf(firstAuthor) ==
  IF firstAuthor = <<>> \/ IsSpace(firstAuthor[Len(firstAuthor)])
    THEN <<"U", "n", "k", "n", "o", "w", "n">>
    ELSE LET a == CHOOSE i \in 1..Len(firstAuthor) :
                    /\ \A j \in i..Len(firstAuthor) : ~IsSpace(firstAuthor[j])
                    /\ i = 1 \/ IsSpace(firstAuthor[i - 1])
         IN  SubSeq(firstAuthor, a, Len(firstAuthor))

\* titleWords.find(word => !skipWords.includes(word.toLowerCase()))
\*   || titleWords[0] || 'untitled'
firstSignificantWordOf(title) ==
  LET titleWords == splitSpaces(title)
      found == IF \E i \in 1..Len(titleWords) :
                    toLowerCase(titleWords[i]) \notin skipWords
                 THEN titleWords[CHOOSE i \in 1..Len(titleWords) :
                        /\ toLowerCase(titleWords[i]) \notin skipWords
                        /\ \A j \in 1..(i - 1) :
                             toLowerCase(titleWords[j]) \in skipWords]
                 ELSE <<>>
  IN  IF found # <<>> THEN found
      ELSE IF titleWords[1] # <<>> THEN titleWords[1]
      ELSE <<"u", "n", "t", "i", "t", "l", "e", "d">>

createCitationKey(reference) ==
  LET firstAuthor == IF reference.authors # <<>> /\ reference.authors[1] # <<>>
                       THEN reference.authors[1] ELSE <<"U", "n", "k", "n", "o", "w", "n">>
      lastName == lastNameOf(firstAuthor)
      year == IF reference.year # NoYear
                THEN NumberToText(reference.year) ELSE <<"n", "d">>
      rawCitationKey == lastName \o year \o firstSignificantWordOf(reference.title)
  IN  toLowerCase(SelectSeq(rawCitationKey, IsWordChar))

\* ---------------------------------------------------------- bibtexService
\* text.replace(/[\\{}]/g, '\\$&').replace(/[&%$#_^~]/g, '\\$&')
RECURSIVE escapeBibTeX(_)
escapeBibTeX(text) ==
  IF text = <<>> THEN <<>>
  ELSE (IF Head(text) \in {"\\", "{", "}", "&", "%", "$", "#", "_", "^", "~"}
          THEN <<"\\", Head(text)>> ELSE <<Head(text)>>)
       \o escapeBibTeX(Tail(text))

\* "Firstname Lastname" to "Lastname, Firstname"
formatAuthor(author) ==
  LET parts == split(author, <<" ">>)
  IN  IF Len(parts) >= 2
        THEN parts[Len(parts)] \o <<",", " ">>
               \o join(SubSeq(parts, 1, Len(parts) - 1), <<" ">>)
        ELSE author

formatAuthorsForBibTeX(authors) ==
  join([i \in 1..Len(authors) |-> formatAuthor(authors[i])], <<" ", "a", "n", "d", " ">>)

\* "Lastname, Firstname" to "Firstname Lastname"
parseAuthor(author) ==
  LET raw == split(author, <<",">>)
      parts == [i \in 1..Len(raw) |-> trim(raw[i])]
  IN  IF Len(parts) = 2 THEN parts[2] \o <<" ">> \o parts[1] ELSE author

parseAuthors(authorString) ==
  LET raw == split(authorString, <<" ", "a", "n", "d", " ">>)
      trimmed == [i \in 1..Len(raw) |-> trim(raw[i])]
      authors == SelectSeq(trimmed, LAMBDA a : a # <<>>)
  IN  [i \in 1..Len(authors) |-> parseAuthor(authors[i])]

\* variant: the container is searched as it is written
entryTypeOf_caseSensitive(reference) ==
  IF TruthyText(reference.journalOrBook)
    THEN IF includes(reference.journalOrBook, <<"p", "r", "o", "c", "e", "e", "d", "i", "n", "g", "s">>)
           THEN <<"i", "n", "p", "r", "o", "c", "e", "e", "d", "i", "n", "g", "s">> ELSE <<"a", "r", "t", "i", "c", "l", "e">>
    ELSE <<"m", "i", "s", "c">>

entryTypeOf(reference) ==
  IF TruthyText(reference.journalOrBook)
    THEN IF includes(toLowerCase(reference.journalOrBook), <<"p", "r", "o", "c", "e", "e", "d", "i", "n", "g", "s">>)
           THEN <<"i", "n", "p", "r", "o", "c", "e", "e", "d", "i", "n", "g", "s">> ELSE <<"a", "r", "t", "i", "c", "l", "e">>
    ELSE <<"m", "i", "s", "c">>

FieldLine(name, value) == <<" ", " ">> \o name \o <<" ", "=", " ", "{">> \o value \o <<"}", ",", "\n">>

\* the text exportToBibTeX appends for one reference
ExportEntry(reference) ==
  LET entryType == entryTypeOf(reference)
      fieldName == IF entryType = <<"a", "r", "t", "i", "c", "l", "e">> THEN <<"j", "o", "u", "r", "n", "a", "l">>
                   ELSE IF entryType = <<"i", "n", "p", "r", "o", "c", "e", "e", "d", "i", "n", "g", "s">> THEN <<"b", "o", "o", "k", "t", "i", "t", "l", "e">>
                   ELSE <<"h", "o", "w", "p", "u", "b", "l", "i", "s", "h", "e", "d">>
      bibtex ==
        <<"@">> \o entryType \o <<"{">> \o createCitationKey(reference) \o <<",", "\n">>
        \o FieldLine(<<"t", "i", "t", "l", "e">>, escapeBibTeX(reference.title))
        \o (IF Len(reference.authors) > 0
              THEN FieldLine(<<"a", "u", "t", "h", "o", "r">>, formatAuthorsForBibTeX(reference.authors))
              ELSE <<>>)
        \o (IF reference.year # NoYear
              THEN FieldLine(<<"y", "e", "a", "r">>, NumberToText(reference.year)) ELSE <<>>)
        \o (IF TruthyText(reference.journalOrBook)
              THEN FieldLine(fieldName, escapeBibTeX(reference.journalOrBook))
              ELSE <<>>)
        \o (IF TruthyText(reference.doi)
              THEN FieldLine(<<"d", "o", "i">>, escapeBibTeX(reference.doi)) ELSE <<>>)
        \o (IF TruthyText(reference.url)
              THEN FieldLine(<<"u", "r", "l">>, escapeBibTeX(reference.url)) ELSE <<>>)
        \o (IF Len(reference.tags) > 0
              THEN FieldLine(<<"k", "e", "y", "w", "o", "r", "d", "s">>, join(reference.tags, <<",", " ">>))
              ELSE <<>>)
  IN  SubSeq(bibtex, 1, Len(bibtex) - 2) \o <<"\n", "}", "\n", "\n">>

RECURSIVE exportToBibTeX(_)
exportToBibTeX(references) ==
  IF references = <<>> THEN <<>>
  ELSE ExportEntry(Head(references)) \o exportToBibTeX(Tail(references))

NoMatch == [found |-> FALSE, g1 |-> <<>>, g2 |-> <<>>, g3 |-> <<>>, end |-> 0]

\* fieldRegex /(\w+)\s*=\s*{([^}]*)}/ tried at index p
MatchFieldAt(s, p) ==
  LET w == WordRunEnd(s, p)
      a == SpaceRunEnd(s, w + 1) + 1
      b == SpaceRunEnd(s, a + 1) + 1
      c == indexOf(s, <<"}">>, b + 1)
  IN  IF /\ w >= p
         /\ a <= Len(s) /\ s[a] = "="
         /\ b <= Len(s) /\ s[b] = "{"
         /\ c # 0
        THEN [found |-> TRUE, g1 |-> SubSeq(s, p, w),
              g2 |-> SubSeq(s, b + 1, c - 1), g3 |-> <<>>, end |-> c]
        ELSE NoMatch

\* entryRegex /@(\w+)\s*{\s*([^,]+)\s*,([\s\S]+?)\n}/ tried at index p
MatchEntryAt(s, p) ==
  LET w == WordRunEnd(s, p + 1)
      q == SpaceRunEnd(s, w + 1) + 1
      c == indexOf(s, <<",">>, q + 1)
      e == indexOf(s, <<"\n", "}">>, c + 2)
  IN  IF /\ p <= Len(s) /\ s[p] = "@"
         /\ w >= p + 1
         /\ q <= Len(s) /\ s[q] = "{"
         /\ c >= q + 2
         /\ e # 0
        THEN [found |-> TRUE, g1 |-> SubSeq(s, p + 1, w),
              g2 |-> SubSeq(s, q + 1, c - 1), g3 |-> SubSeq(s, c + 1, e - 1),
              end |-> e + 1]
        ELSE NoMatch

\* fieldRegex.exec with lastIndex = from - 1: the leftmost match
ExecField(s, from) ==
  IF \E p \in from..Len(s) : MatchFieldAt(s, p).found
    THEN MatchFieldAt(s, CHOOSE p \in from..Len(s) :
                           /\ MatchFieldAt(s, p).found
                           /\ \A j \in from..(p - 1) : ~MatchFieldAt(s, j).found)
    ELSE NoMatch

\* entryRegex.exec with lastIndex = from - 1: the leftmost match
ExecEntry(s, from) ==
  IF \E p \in from..Len(s) : MatchEntryAt(s, p).found
    THEN MatchEntryAt(s, CHOOSE p \in from..Len(s) :
                           /\ MatchEntryAt(s, p).found
                           /\ \A j \in from..(p - 1) : ~MatchEntryAt(s, j).found)
    ELSE NoMatch

\* the while loop over fieldRegex.exec(fieldsText)
RECURSIVE FieldsFrom(_, _)
FieldsFrom(fieldsText, from) ==
  LET fieldMatch == ExecField(fieldsText, from)
  IN  IF ~fieldMatch.found THEN <<>>
      ELSE <<[fieldName |-> toLowerCase(fieldMatch.g1),
              fieldValue |-> trim(fieldMatch.g2)]>>
             \o FieldsFrom(fieldsText, fieldMatch.end + 1)

\* fields[name]: the last assignment wins, undefined when there is none
Field(fields, name) ==
  IF \E i \in 1..Len(fields) : fields[i].fieldName = name
    THEN fields[CHOOSE i \in 1..Len(fields) :
                  /\ fields[i].fieldName = name
                  /\ \A j \in (i + 1)..Len(fields) : fields[j].fieldName # name
               ].fieldValue
    ELSE Absent

\* variant: the keywords field fills the tags
ParsedReference_withKeywords(match, t) ==
  LET fields == FieldsFrom(match.g3, 1)
  IN  [id |-> trim(match.g2),
       title |-> IF TruthyText(Field(fields, <<"t", "i", "t", "l", "e">>))
                   THEN Field(fields, <<"t", "i", "t", "l", "e">>) ELSE <<"U", "n", "t", "i", "t", "l", "e", "d", " ", "R", "e", "f", "e", "r", "e", "n", "c", "e">>,
       authors |-> parseAuthors(IF TruthyText(Field(fields, <<"a", "u", "t", "h", "o", "r">>))
                                  THEN Field(fields, <<"a", "u", "t", "h", "o", "r">>) ELSE <<>>),
       year |-> IF TruthyText(Field(fields, <<"y", "e", "a", "r">>))
                  THEN parseIntText(Field(fields, <<"y", "e", "a", "r">>)) ELSE NoYear,
       journalOrBook |-> IF TruthyText(Field(fields, <<"j", "o", "u", "r", "n", "a", "l">>))
                           THEN Field(fields, <<"j", "o", "u", "r", "n", "a", "l">>)
                           ELSE Field(fields, <<"b", "o", "o", "k", "t", "i", "t", "l", "e">>),
       doi |-> Field(fields, <<"d", "o", "i">>),
       url |-> Field(fields, <<"u", "r", "l">>),
       tags |-> IF TruthyText(Field(fields, <<"k", "e", "y", "w", "o", "r", "d", "s">>))
                  THEN split(Field(fields, <<"k", "e", "y", "w", "o", "r", "d", "s">>), <<",", " ">>) ELSE <<>>,
       notes |-> Absent,
       visibility |-> "private",
       createdAt |-> t, updatedAt |-> t, eventId |-> Undefined]

\* the Reference parseBibTeX makes of one match of entryRegex
ParsedReference(match, t) ==
  LET fields == FieldsFrom(match.g3, 1)
  IN  [id |-> trim(match.g2),
       title |-> IF TruthyText(Field(fields, <<"t", "i", "t", "l", "e">>))
                   THEN Field(fields, <<"t", "i", "t", "l", "e">>) ELSE <<"U", "n", "t", "i", "t", "l", "e", "d", " ", "R", "e", "f", "e", "r", "e", "n", "c", "e">>,
       authors |-> parseAuthors(IF TruthyText(Field(fields, <<"a", "u", "t", "h", "o", "r">>))
                                  THEN Field(fields, <<"a", "u", "t", "h", "o", "r">>) ELSE <<>>),
       year |-> IF TruthyText(Field(fields, <<"y", "e", "a", "r">>))
                  THEN parseIntText(Field(fields, <<"y", "e", "a", "r">>)) ELSE NoYear,
       journalOrBook |-> IF TruthyText(Field(fields, <<"j", "o", "u", "r", "n", "a", "l">>))
                           THEN Field(fields, <<"j", "o", "u", "r", "n", "a", "l">>)
                           ELSE Field(fields, <<"b", "o", "o", "k", "t", "i", "t", "l", "e">>),
       doi |-> Field(fields, <<"d", "o", "i">>),
       url |-> Field(fields, <<"u", "r", "l">>),
       tags |-> <<>>,
       notes |-> Absent,
       visibility |-> "private",
       createdAt |-> t, updatedAt |-> t, eventId |-> Undefined]

\* the while loop over entryRegex.exec(bibtex)
RECURSIVE ParseFrom(_, _, _)
ParseFrom(bibtex, from, t) ==
  LET match == ExecEntry(bibtex, from)
  IN  IF ~match.found THEN <<>>
      ELSE <<ParsedReference(match, t)>> \o ParseFrom(bibtex, match.end + 1, t)

parseBibTeX(bibtex, t) == ParseFrom(bibtex, 1, t)

\* ------------------------------------------------ inputs of the codec
\* entry blocks as a .bib file holds them, each with whether it is a
\* well-formed entry `@type{key, fields }` of the dialect exportToBibTeX
\* writes
WellFormedBlocks ==
  { <<"@", "a", "r", "t", "i", "c", "l", "e", "{", "k", "1", ",", "\n", " ", " ", "t", "i", "t", "l", "e", " ", "=", " ", "{", "A", "}", ",", "\n", " ", " ", "k", "e", "y", "w", "o", "r", "d", "s", " ", "=", " ", "{", "x", "}", ",", "\n", " ", " ", "v", "i", "s", "i", "b", "i", "l", "i", "t", "y", " ", "=", " ", "{", "p", "u", "b", "l", "i", "c", "}", "\n", "}", "\n">>,
    <<"@", "m", "i", "s", "c", "{", "k", "2", ",", "\n", " ", " ", "t", "i", "t", "l", "e", " ", "=", " ", "{", "B", "}", ",", "\n", " ", " ", "y", "e", "a", "r", " ", "=", " ", "{", "2", "0", "2", "0", "}", "\n", "}", "\n">> }

MalformedBlocks ==
  { <<"@", "m", "i", "s", "c", "{", "k", "3", "\n", " ", " ", "t", "i", "t", "l", "e", " ", "=", " ", "{", "C", "}", "\n", "}", "\n">>,       \* no comma after the key
    <<"@", "b", "o", "o", "k", "{", "k", "4", ",", "\n", " ", " ", "t", "i", "t", "l", "e", " ", "=", " ", "{", "D", "}", "\n">>,          \* no closing brace
    <<"%", " ", "a", " ", "n", "o", "t", "e", "\n">> }                          \* no entry at all

BibBlocks ==
  {[text |-> b, wellFormed |-> TRUE] : b \in WellFormedBlocks}
    \cup {[text |-> b, wellFormed |-> FALSE] : b \in MalformedBlocks}

BlockSeqs == UNION {[1..n -> BibBlocks] : n \in 1..MaxBlocks}

RECURSIVE TextOf(_)
TextOf(blocks) ==
  IF blocks = <<>> THEN <<>> ELSE Head(blocks).text \o TextOf(Tail(blocks))

\* records handed to exportToBibTeX: plain values, and titles, containers,
\* dois and urls with each of the characters escapeBibTeX escapes
SpecialChars == {"\\", "{", "}", "&", "%", "$", "#", "_", "^", "~"}

BibTitles == {<<"A", " ", "T", "e", "s", "t">>} \cup {<<"A", c, "B">> : c \in SpecialChars}

BibRecords ==
  { [id |-> <<"r", "0">>, title |-> ti, authors |-> au, year |-> y,
     journalOrBook |-> j, doi |-> d, url |-> Absent, tags |-> tg,
     notes |-> Absent, visibility |-> "private",
     createdAt |-> 0, updatedAt |-> 0, eventId |-> Undefined]
      : ti \in BibTitles,
        au \in {<<<<"J", "a", "n", "e", " ", "D", "o", "e">>>>, <<<<"P", "l", "a", "t", "o">>, <<"J", "e", "a", "n", " ", "P", "a", "u", "l", " ", "S", "a", "r", "t", "r", "e">>>>},
        y \in {NoYear, 2020},
        j \in {Absent, <<"P", "r", "o", "c", "e", "e", "d", "i", "n", "g", "s", " ", "o", "f", " ", "X">>, <<"A", "C", "M", " ", "P", "R", "O", "C", "E", "E", "D", "I", "N", "G", "S">>, <<"J", "&", "B">>},
        d \in {Absent, <<"1", "0", ".", "1", "0", "0", "0", "/", "a", "_", "b">>},
        tg \in {<<>>, <<<<"m", "l">>>>} }

NullBibReference ==
  [id |-> <<>>, title |-> <<>>, authors |-> <<>>, year |-> NoYear,
   journalOrBook |-> Absent, doi |-> Absent, url |-> Absent, tags |-> <<>>,
   notes |-> Absent, visibility |-> "private",
   createdAt |-> 0, updatedAt |-> 0, eventId |-> Undefined]

\* ------------------------------------------------------- ImportReference
\* the referenceData handleImport hands to createReference
ImportFormData(ref) ==
  [title |-> ref.title, authors |-> ref.authors, year |-> ref.year,
   journalOrBook |-> ref.journalOrBook, doi |-> ref.doi, url |-> ref.url,
   tags |-> ref.tags, notes |-> ref.notes, visibility |-> "private"]

\* variant: the loop ends at the first record that cannot be saved
ImportedLibrary_stopsAtFailure(refs, parsedReferences, saved, k, t) ==
  LET n == Len(parsedReferences)
      last == IF \A i \in k..n : saved[i] THEN n
              ELSE (CHOOSE i \in k..n : ~saved[i] /\ \A j \in k..(i - 1) : saved[j]) - 1
  IN  refs \o [i \in 1..(last - k + 1) |->
                 NewReference(ImportFormData(parsedReferences[k + i - 1]),
                              generateUniqueId(nextId + k + i - 2), t)]

\* the library after the loop over parsedReferences; saved[k] tells whether
\* the saveReferences of record k went through
RECURSIVE ImportedLibrary(_, _, _, _, _)
ImportedLibrary(refs, parsedReferences, saved, k, t) ==
  IF k > Len(parsedReferences) THEN refs
  ELSE ImportedLibrary(
         IF saved[k]
           THEN Append(refs, NewReference(ImportFormData(parsedReferences[k]),
                                          generateUniqueId(nextId + k - 1), t))
           ELSE refs,
         parsedReferences, saved, k + 1, t)

BibPage(step, blocks, text, reference, records, stats, msg) ==
  [step |-> step, blocks |-> blocks, text |-> text, reference |-> reference,
   records |-> records, stats |-> stats, toast |-> msg]

NoStats == [total |-> 0, success |-> 0, failed |-> 0]

BibInit ==
  /\ AppAtRest
  /\ calls = <<>>

\* handleParse on a pasted or uploaded text
HandleParse ==
  /\ calls = <<>>
  /\ \E blocks \in BlockSeqs :
       LET bibtexInput == TextOf(blocks)
           references == parseBibTeX(bibtexInput, now)
       IN  calls' = <<BibPage(IF references = <<>> THEN "input" ELSE "preview",
                              blocks, bibtexInput, NullBibReference, references,
                              NoStats,
                              IF references = <<>> THEN "No References Found"
                                                   ELSE "BibTeX Parsed")>>
  /\ UNCHANGED <<library, wire, user, now, nextId, hnd>>

\* handleImport: createReference for every parsed reference, each in its
\* own try
HandleImport ==
  /\ Len(calls) = 1
  /\ calls[1].step = "preview"
  /\ LET parsedReferences == calls[1].records
         n == Len(parsedReferences)
     IN  \E saved \in [1..n -> BOOLEAN] :
           LET succeeded == Cardinality({k \in 1..n : saved[k]})
               failed == n - succeeded
           IN  /\ library' = ImportedLibrary(library, parsedReferences, saved,
                                             1, now)
               /\ nextId' = nextId + n
               /\ calls' = <<[calls[1] EXCEPT
                     !.step = "success",
                     !.stats = [total |-> n, success |-> succeeded,
                                failed |-> failed],
                     !.toast = IF failed > 0 THEN "Partial Import"
                                             ELSE "Import Successful"]>>
  /\ UNCHANGED <<wire, user, now, hnd>>

\* exportToBibTeX([reference])
ExportCall ==
  /\ calls = <<>>
  /\ \E reference \in BibRecords :
       calls' = <<BibPage("exported", <<>>, exportToBibTeX(<<reference>>),
                          reference, <<>>, NoStats, "")>>
  /\ UNCHANGED <<library, wire, user, now, nextId, hnd>>

\* parseBibTeX of an exported text
ReparseCall ==
  /\ Len(calls) = 1
  /\ calls[1].step = "exported"
  /\ calls' = <<[calls[1] EXCEPT
                   !.step = "reparsed",
                   !.records = parseBibTeX(calls[1].text, now)]>>
  /\ UNCHANGED <<library, wire, user, now, nextId, hnd>>

BibNext ==
  \/ HandleParse
  \/ HandleImport
  \/ ExportCall
  \/ ReparseCall

SpecBib == BibInit /\ [][BibNext]_vars

\* ------------------------------------------------------------------ C18
\* C18: every record parseBibTeX makes is private and has no tags, whatever
\* fields the source text has, and every record the import stores in the
\* library is private and has no tags.
C18_ImportedPrivateNoTags ==
  /\ \A c \in SeqRange(calls) :
       c.step \in {"input", "preview", "success"}
       => \A i \in 1..Len(c.records) :
            c.records[i].visibility = "private" /\ c.records[i].tags = <<>>
  /\ \A i \in 1..Len(library) :
       library[i].visibility = "private" /\ library[i].tags = <<>>

C18_Witness ==
  /\ Len(calls) = 1
  /\ calls[1].step = "success"
  /\ includes(calls[1].text, <<"v", "i", "s", "i", "b", "i", "l", "i", "t", "y", " ", "=", " ", "{", "p", "u", "b", "l", "i", "c", "}">>)
  /\ includes(calls[1].text, <<"k", "e", "y", "w", "o", "r", "d", "s", " ", "=", " ", "{", "x", "}">>)
  /\ \E i \in 1..Len(library) :
       library[i].title = <<"A">> /\ library[i].visibility = "private"

\* ------------------------------------------------------------------ C19
\* C19: the records parsed from a text are, in order, the one record of each
\* well-formed block of the text, as that block parses on its own, and
\* nothing for the other blocks.
RECURSIVE ExpectedRecords(_, _)
ExpectedRecords(blocks, t) ==
  IF blocks = <<>> THEN <<>>
  ELSE (IF Head(blocks).wellFormed
          THEN parseBibTeX(Head(blocks).text, t) ELSE <<>>)
       \o ExpectedRecords(Tail(blocks), t)

C19_OneRecordPerWellFormedBlock ==
  \A c \in SeqRange(calls) :
    c.step \in {"input", "preview", "success"}
    => /\ \A i \in 1..Len(c.blocks) :
            c.blocks[i].wellFormed
            => Len(parseBibTeX(c.blocks[i].text, now)) = 1
       /\ c.records = ExpectedRecords(c.blocks, now)

\* ------------------------------------------------------------------ C20
\* C20: parsing the text exported for a record gives one record with the
\* same title, authors, year, container, doi and url.
C20_ExportParseRoundTrip ==
  \A c \in SeqRange(calls) :
    c.step = "reparsed"
    => /\ Len(c.records) = 1
       /\ c.records[1].title = c.reference.title
       /\ c.records[1].authors = c.reference.authors
       /\ c.records[1].year = c.reference.year
       /\ c.records[1].journalOrBook = c.reference.journalOrBook
       /\ c.records[1].doi = c.reference.doi
       /\ c.records[1].url = c.reference.url

\* ------------------------------------------------------------------ C21
StartsWith(text, prefix) == OccursAt(text, prefix, 1)

HasField(text, name) == includes(text, <<"\n", " ", " ">> \o name \o <<" ", "=", " ", "{">>)

HasFieldValue(text, name, value) ==
  includes(text, <<"\n", " ", " ">> \o name \o <<" ", "=", " ", "{">> \o value \o <<"}">>)

MentionsProceedings(container) ==
  \E i \in 1..(Len(container) - 10) :
    toLowerCase(SubSeq(container, i, i + 10)) = <<"p", "r", "o", "c", "e", "e", "d", "i", "n", "g", "s">>

\* C21: the exported entry is of type inproceedings with the container as
\* booktitle when the container has "proceedings" in any case, of type
\* article with the container as journal when there is another container,
\* and of type misc with no container field when there is none.
C21_EntryTypeFollowsContainer ==
  \A c \in SeqRange(calls) :
    c.step \in {"exported", "reparsed"}
    => LET container == c.reference.journalOrBook
       IN  IF ~TruthyText(container)
             THEN /\ StartsWith(c.text, <<"@", "m", "i", "s", "c", "{">>)
                  /\ ~HasField(c.text, <<"j", "o", "u", "r", "n", "a", "l">>)
                  /\ ~HasField(c.text, <<"b", "o", "o", "k", "t", "i", "t", "l", "e">>)
                  /\ ~HasField(c.text, <<"h", "o", "w", "p", "u", "b", "l", "i", "s", "h", "e", "d">>)
           ELSE IF MentionsProceedings(container)
             THEN /\ StartsWith(c.text, <<"@", "i", "n", "p", "r", "o", "c", "e", "e", "d", "i", "n", "g", "s", "{">>)
                  /\ HasFieldValue(c.text, <<"b", "o", "o", "k", "t", "i", "t", "l", "e">>, escapeBibTeX(container))
                  /\ ~HasField(c.text, <<"j", "o", "u", "r", "n", "a", "l">>)
                  /\ ~HasField(c.text, <<"h", "o", "w", "p", "u", "b", "l", "i", "s", "h", "e", "d">>)
           ELSE /\ StartsWith(c.text, <<"@", "a", "r", "t", "i", "c", "l", "e", "{">>)
                /\ HasFieldValue(c.text, <<"j", "o", "u", "r", "n", "a", "l">>, escapeBibTeX(container))
                /\ ~HasField(c.text, <<"b", "o", "o", "k", "t", "i", "t", "l", "e">>)
                /\ ~HasField(c.text, <<"h", "o", "w", "p", "u", "b", "l", "i", "s", "h", "e", "d">>)

C21_Witness ==
  \E c \in SeqRange(calls) :
    /\ c.step = "exported"
    /\ c.reference.journalOrBook = <<"P", "r", "o", "c", "e", "e", "d", "i", "n", "g", "s", " ", "o", "f", " ", "X">>
    /\ StartsWith(c.text, <<"@", "i", "n", "p", "r", "o", "c", "e", "e", "d", "i", "n", "g", "s", "{">>)
    /\ HasFieldValue(c.text, <<"b", "o", "o", "k", "t", "i", "t", "l", "e">>, <<"P", "r", "o", "c", "e", "e", "d", "i", "n", "g", "s", " ", "o", "f", " ", "X">>)
    /\ ~HasField(c.text, <<"j", "o", "u", "r", "n", "a", "l">>)

\* ===================================================================
\* SpecIds: the four record operations of referenceService called one
\* after the other, each running to its return before the next starts.
\* generateUniqueId joins the clock and a Math.random draw; the draw is any
\* value of 0..NumRandoms-1, so that two records made at the same clock
\* value may or may not get the same draw.  The clock stands still: all calls
\* fall into one second.  `calls` holds the last call made and what it
\* returned.
\* ===================================================================
MaxIdRefs == MaxRefs + 1

\* Date.now() and Math.random() as the one number generateUniqueId prints
IdSeed(t, rnd) == t * NumRandoms + rnd

IdsFormData == {d \in ReferenceFormData : d.visibility = "private"}

\* every id createReference can produce within the bounds
AllIds == {generateUniqueId(IdSeed(0, rnd)) : rnd \in 0..(NumRandoms - 1)}

\* the ids a caller passes: those of the stored records and one that no
\* stored record has
CallerIds ==
  LET stored == {library[i].id : i \in 1..Len(library)}
      other == AllIds \ stored
  IN  stored \cup (IF other = {} THEN {} ELSE {CHOOSE id \in other : TRUE})

ServiceCall(op, id, result) == [op |-> op, id |-> id, result |-> result]

IdsInit ==
  /\ library = <<>>
  /\ wire = <<>>
  /\ user = NoUser
  /\ now = 0
  /\ nextId = 0
  /\ hnd = [kind |-> "none", pc |-> "done", steps |-> <<>>,
            reference |-> NullReference, updated |-> NullReference,
            outcome |-> "ok", error |-> "", toast |-> "",
            ret |-> Undefined, user |-> NoUser]
  /\ calls = <<>>

\* createReference(referenceData)
ServiceCreate ==
  /\ Len(library) < MaxIdRefs
  /\ \E data \in IdsFormData, rnd \in 0..(NumRandoms - 1), saveOk \in BOOLEAN :
       LET id == generateUniqueId(IdSeed(now, rnd))
       IN  /\ library' = IF saveOk
                           THEN Append(library, NewReference(data, id, now))
                           ELSE library
           /\ calls' = <<ServiceCall("create", id,
                                     IF saveOk THEN "reference" ELSE "throws")>>
  /\ UNCHANGED <<wire, user, now, nextId, hnd>>

\* updateReference(id, referenceData)
ServiceUpdate ==
  /\ \E id \in CallerIds, data \in IdsFormData, saveOk \in BOOLEAN :
       LET index == IndexOfId(library, id)
       IN  IF index = 0
             THEN /\ library' = library
                  /\ calls' = <<ServiceCall("update", id, "null")>>
             ELSE /\ library' = IF saveOk
                                  THEN [library EXCEPT ![index] =
                                          UpdatedReference(library[index], data, now)]
                                  ELSE library
                  /\ calls' = <<ServiceCall("update", id,
                                            IF saveOk THEN "reference" ELSE "throws")>>
  /\ UNCHANGED <<wire, user, now, nextId, hnd>>

\* deleteReference(id)
ServiceDelete ==
  /\ \E id \in CallerIds, saveOk \in BOOLEAN :
       LET filteredReferences == FilterOutId(library, id)
       IN  IF Len(filteredReferences) = Len(library)
             THEN /\ library' = library
                  /\ calls' = <<ServiceCall("delete", id, "false")>>
             ELSE /\ library' = IF saveOk THEN filteredReferences ELSE library
                  /\ calls' = <<ServiceCall("delete", id,
                                            IF saveOk THEN "true" ELSE "throws")>>
  /\ UNCHANGED <<wire, user, now, nextId, hnd>>

\* updateReferenceEventId(id, eventId)
ServiceSetEventId ==
  /\ \E id \in CallerIds, saveOk \in BOOLEAN :
       LET index == IndexOfId(library, id)
       IN  IF index = 0
             THEN /\ library' = library
                  /\ calls' = <<ServiceCall("setEventId", id, "null")>>
             ELSE /\ library' = IF saveOk
                                  THEN [library EXCEPT ![index] =
                                          WithEventId(library[index],
                                                      PLACEHOLDER_PUBLIC, now)]
                                  ELSE library
                  /\ calls' = <<ServiceCall("setEventId", id,
                                            IF saveOk THEN "reference" ELSE "throws")>>
  /\ UNCHANGED <<wire, user, now, nextId, hnd>>

IdsNext ==
  \/ ServiceCreate
  \/ ServiceUpdate
  \/ ServiceDelete
  \/ ServiceSetEventId

SpecIds == IdsInit /\ [][IdsNext]_vars

\* ------------------------------------------------------------------ C22
DistinctIds(refs) ==
  \A i, j \in 1..Len(refs) : i # j => refs[i].id # refs[j].id

\* the record is one the library held before with the same id and creation
\* time, or the one the call just made has created
KeepsIdentity(r) ==
  \/ \E i \in 1..Len(library) :
       library[i].id = r.id /\ library[i].createdAt = r.createdAt
  \/ /\ calls' = <<ServiceCall("create", r.id, "reference")>>
     /\ r.createdAt = now

\* C22 as stated: after any sequence of calls no two records share an id.
C22_NoTwoRecordsShareAnId == DistinctIds(library)

\* The part of C22 that holds: every record keeps the id and createdAt it
\* was created with through every later call, and the ids of the library
\* stay pairwise distinct as long as createReference does not return an id
\* that a stored record already has.
IdentityKeptUniqueWhileFresh ==
  [][ /\ \A i \in 1..Len(library') : KeepsIdentity(library'[i])
      /\ ( /\ DistinctIds(library)
           /\ ~ \E c \in SeqRange(calls') :
                  c.op = "create" /\ HasId(library, c.id) )
         => DistinctIds(library') ]_vars

\* ------------------------------------------------------------------ C26
\* the records of other ids, in their order
OtherRecords(refs, id) == SelectSeq(refs, LAMBDA r : r.id # id)

NotFoundResult(op) == IF op = "delete" THEN "false" ELSE "null"

KeyAuthors ==
  { <<>>,
    <<<<"J", "a", "n", "e", " ", "D", "o", "e">>>>,
    <<<<"A", "l", " ", "O", "_", "N", "e", "i", "l">>, <<"B", "o", " ", "L", "i">>>>,
    <<<<"A", "n", "n", " ", "L", "e", "e", "-", "W", "u", " ">>>> }

KeyYears == {NoYear, 0, 2020}

KeyTitles ==
  { <<"T", "h", "e", " ", "G", "r", "e", "a", "t", " ", "S", "t", "u", "d", "y">>, <<" ", "G", "r", "e", "a", "t", " ", "S", "t", "u", "d", "y">>, <<>>, <<"o", "f", " ", "t", "h", "e">>, <<" ", " ", " ">>,
    <<"T", "H", "E", " ", "a", "_", "b", " ", "C">>, <<"A", "n", " ", " ", "A", "p", "p", "l", "e", "!">>, <<"S", "t", "u", "d", "y">>, <<"o", "n", " ", "2", "n", "d", " ", "T", "h", "o", "u", "g", "h", "t", " ">> }

KeyInputs ==
  { [authors |-> a, year |-> y, title |-> t] :
      a \in KeyAuthors, y \in KeyYears, t \in KeyTitles }

KeyInit ==
  /\ library = <<>>
  /\ wire = <<>>
  /\ user = NoUser
  /\ now = 0
  /\ nextId = 0
  /\ hnd = [kind |-> "none", pc |-> "done", steps |-> <<>>,
            reference |-> NullReference, updated |-> NullReference,
            outcome |-> "ok", error |-> "", toast |-> "",
            ret |-> Undefined, user |-> NoUser]
  /\ calls = <<>>

CitationKeyCall ==
  /\ \E reference \in KeyInputs :
       calls' = <<[op |-> "createCitationKey", reference |-> reference,
                   key |-> createCitationKey(reference)]>>
  /\ UNCHANGED <<library, wire, user, now, nextId, hnd>>

KeyNext == CitationKeyCall

SpecKey == KeyInit /\ [][KeyNext]_vars

\* ------------------------------------------------------------------ C23
\* C23: the citation key is made of lower-case letters and digits only.
C23_KeyIsLowerCaseAlphanumeric ==
  \A c \in SeqRange(calls) :
    \A i \in 1..Len(c.key) :
      c.key[i] \in SeqRange(LowerCase) \cup SeqRange(Digits)

\* ------------------------------------------------------------------ C24
\* the words of a title: its maximal runs of non-space characters
WordsOf(title) == SelectSeq(splitSpaces(title), LAMBDA w : w # <<>>)

\* the title word the key is to be built from
KeyWordOf(title) ==
  LET words == WordsOf(title)
      significant == SelectSeq(words, LAMBDA w : toLowerCase(w) \notin skipWords)
  IN  IF significant # <<>> THEN significant[1]
      ELSE IF words # <<>> THEN words[1]
      ELSE <<"u", "n", "t", "i", "t", "l", "e", "d">>

\* the key with the given title word, cleaned as createCitationKey cleans it
KeyFrom(reference, word) ==
  LET firstAuthor == IF reference.authors # <<>> /\ reference.authors[1] # <<>>
                       THEN reference.authors[1] ELSE <<"U", "n", "k", "n", "o", "w", "n">>
      year == IF reference.year # NoYear
                THEN NumberToText(reference.year) ELSE <<"n", "d">>
  IN  toLowerCase(SelectSeq(lastNameOf(firstAuthor) \o year \o word, IsWordChar))

\* C24: the key is built from the first author's last name, the year and
\* the first title word that is not a stop-word in any case, or the first
\* word when all are stop-words, or "untitled" when the title has no word;
\* ["Jane Doe"], 2020, "The Great Study" gives doe2020great.
C24_KeyUsesFirstSignificantWord ==
  \A c \in SeqRange(calls) :
    /\ c.key = KeyFrom(c.reference, KeyWordOf(c.reference.title))
    /\ c.reference = [authors |-> <<<<"J", "a", "n", "e", " ", "D", "o", "e">>>>, year |-> 2020,
                      title |-> <<"T", "h", "e", " ", "G", "r", "e", "a", "t", " ", "S", "t", "u", "d", "y">>]
       => c.key = <<"d", "o", "e", "2", "0", "2", "0", "g", "r", "e", "a", "t">>

\* ------------------------------------------------------------------ C25
\* the imported records are parsed records, in their order
RECURSIVE IsSubSequence(_, _)
IsSubSequence(s, t) ==
  IF s = <<>> THEN TRUE
  ELSE IF t = <<>> THEN FALSE
  ELSE IF Head(s) = Head(t) THEN IsSubSequence(Tail(s), Tail(t))
  ELSE IsSubSequence(s, Tail(t))

DataOf(refs) == [i \in 1..Len(refs) |-> ImportFormData(refs[i])]

\* C25: when a batch import is over, total is the number of parsed records
\* and equals succeeded + failed, and succeeded is the number of records
\* the import has added to the library.
C25_ImportCountsAddUp ==
  \A c \in SeqRange(calls) :
    c.step = "success"
    => /\ c.stats.total = Len(c.records)
       /\ c.stats.total = c.stats.success + c.stats.failed
       /\ c.stats.success = Len(library)
       /\ IsSubSequence(DataOf(library), DataOf(c.records))

\* the first record could not be stored, the second one is in the library
C25_Witness ==
  \E c \in SeqRange(calls) :
    /\ c.step = "success"
    /\ c.stats = [total |-> 2, success |-> 1, failed |-> 1]
    /\ c.toast = "Partial Import"
    /\ Len(library) = 1
    /\ library[1].title = c.records[2].title
    /\ library[1].title # c.records[1].title

\* ===================================================================
\* Further properties of the page handlers (specification Spec)
\* ===================================================================
\* ------------------------------------------------------------------ C27
KindOf(visibility) ==
  IF visibility = "public" THEN REFERENCE_PUBLIC_KIND ELSE REFERENCE_PRIVATE_KIND

\* C27: when the edit handler of a logged-in user has saved the record and
\* has run to its end without a failed send, an event of the new content and
\* visibility has been sent, whether the record had an eventId or not and
\* whether its visibility has changed or not (the cases the claim names cover
\* every edit: mirrored before, visibility changed, public to private
\* without eventId, unchanged visibility without eventId).
C27_LoggedInEditPublishes ==
  ( /\ EditSaved
    /\ hnd.pc = "done"
    /\ hnd.outcome = "ok"
    /\ hnd.user # NoUser )
  => \E i \in 1..Len(wire) :
       /\ wire[i].event.kind = KindOf(hnd.updated.visibility)
       /\ wire[i].rec = hnd.updated

\* ------------------------------------------------------------------ C28
\* the delete handler got past deleteReference
DeleteSaved == hnd.kind = "delete" /\ hnd.error # "IOFailure"

HasRetractStep(h) == \E k \in 1..Len(h.steps) : h.steps[k].op = "retract"

SentRetraction == \E i \in 1..Len(wire) : wire[i].event.kind = REFERENCE_DELETE_KIND

PublishedPublic(r) == Truthy(r.eventId) /\ r.visibility = "public"

====
